---- MODULE Spec2Model ----
(***************************************************************************)
(* ExpenseVision (src/app.py): the keyword classifier shared by all        *)
(* request workers (SimpleExpenseClassifier: load_model, save_model,       *)
(* predict_category, train), the receipt-scanning handler ocr_receipt, the *)
(* two receipt parsers (parse_receipt_text, parse_receipt_veryfi) and the  *)
(* handler add_expense.                                                    *)
(*                                                                         *)
(* Python strings are modelled as sequences of one-character strings, so   *)
(* that lower(), split() and the substring test `in` are computed, not     *)
(* assumed.  The keyword dict is an ordered sequence of (category, list)   *)
(* entries, python dicts being insertion ordered.                          *)
(***************************************************************************)
EXTENDS Integers, Sequences, FiniteSets, TLC

\* ------------------------------------------------------------------ bounds
\* request workers of the threaded server
NumWorkers == 2
\* classifier calls (train or predict) started in a run
MaxCalls == 2
\* process crashes followed by a restart
MaxCrashes == 1
\* /api/ocr requests started in a run
MaxRequests == 2
\* lines of a receipt text after its leading blank lines
MaxLines == 2
\* leading blank lines of a receipt text
MaxBlank == 5

Workers == 1..NumWorkers

\* ------------------------------------------------------------ python strings
Empty == <<>>
Space == <<" ">>
cafe == <<"c", "a", "f", "e">>
food == <<"f", "o", "o", "d">>
taxi == <<"t", "a", "x", "i">>
bus == <<"b", "u", "s">>
latte == <<"l", "a", "t", "t", "e">>
mocha == <<"m", "o", "c", "h", "a">>
Taxi == <<"T", "a", "x", "i">>

\* str.lower() on the characters the inputs use
LowerChar(ch) ==
  CASE ch = "T" -> "t"
    [] ch = "C" -> "c"
    [] ch = "L" -> "l"
    [] OTHER -> ch

Lower(s) == [i \in 1..Len(s) |-> LowerChar(s[i])]

IsSpace(ch) == ch = " "

\* str.split(): the maximal runs of non-whitespace characters, in order
RECURSIVE SplitFrom(_, _, _)
SplitFrom(s, i, cur) ==
  IF i > Len(s)
  THEN IF cur = <<>> THEN <<>> ELSE <<cur>>
  ELSE IF IsSpace(s[i])
       THEN IF cur = <<>>
            THEN SplitFrom(s, i + 1, <<>>)
            ELSE <<cur>> \o SplitFrom(s, i + 1, <<>>)
       ELSE SplitFrom(s, i + 1, Append(cur, s[i]))

Split(s) == SplitFrom(s, 1, <<>>)

\* the python test `k in text` on two strings
IsSubstring(k, text) ==
  \E i \in 0..(Len(text) - Len(k)) :
    \A j \in 1..Len(k) : text[i + j] = k[j]

\* the python test `w in list`
InList(w, list) == \E i \in 1..Len(list) : list[i] = w

\* (description + ' ' + vendor).lower()
JoinLower(description, vendor) == Lower(description \o Space \o vendor)

\* ------------------------------------------------------------ keyword dict
\* initialize_default_keywords: the built-in table, reduced to two of its
\* nine categories and two of the keywords of each, in source order.
\* 'Other' has no entry in the source table either.
DefaultKeywords ==
  << [cat |-> "Food & Dining", kws |-> <<cafe, food>>],
     [cat |-> "Transportation", kws |-> <<taxi, bus>>] >>

HasKey(d, c) == \E i \in 1..Len(d) : d[i].cat = c

KeyIndex(d, c) == CHOOSE i \in 1..Len(d) : d[i].cat = c

\* d[c] on a plain dict; the caller checks HasKey (KeyError otherwise)
Lookup(d, c) == d[KeyIndex(d, c)].kws

\* a slip that rebinds the list to the new word
AppendWordReplacing(list, w) == <<w>>

\* the next word of the loop that passes len(word) > 3, from index i on
RECURSIVE NextLong(_, _)
NextLong(ws, i) ==
  IF i > Len(ws) THEN i
  ELSE IF Len(ws[i]) > 3 THEN i ELSE NextLong(ws, i + 1)

\* list.append(word)
AppendWord(list, w) == Append(list, w)

\* self.keywords[category].append(word)
DictAppend(d, c, w) ==
  [d EXCEPT ![KeyIndex(d, c)].kws = AppendWord(@, w)]

KwSet(d, c) == IF HasKey(d, c) THEN {Lookup(d, c)[i] : i \in 1..Len(Lookup(d, c))} ELSE {}

\* ------------------------------------------------------------ model file
NoFile == [state |-> "absent", data |-> <<>>]
TruncatedFile == [state |-> "empty", data |-> <<>>]
PickleFile(d) == [state |-> "pickle", data |-> d]

\* load_model: the keywords the classifier holds after construction
LoadedKeywords(f) == IF f.state = "pickle" THEN f.data ELSE DefaultKeywords

\* load_model: the file after construction (initialize_default_keywords
\* ends with save_model)
LoadedFile(f) == IF f.state = "pickle" THEN f ELSE PickleFile(DefaultKeywords)

\* ------------------------------------------------------------ predict
\* scores[category] += 1 on a defaultdict(int): a new key goes last
ScoreHit(scores, c) ==
  IF \E i \in 1..Len(scores) : scores[i].cat = c
  THEN [i \in 1..Len(scores) |->
          IF scores[i].cat = c THEN [scores[i] EXCEPT !.n = @ + 1] ELSE scores[i]]
  ELSE Append(scores, [cat |-> c, n |-> 1])

\* a slip that lets a later item of equal score win
BetterOrEqual(n, best) == n >= best

\* max(scores.items(), key=lambda x: x[1]): a later item replaces the
\* running maximum only when strictly greater
Better(n, best) == n > best

RECURSIVE MaxFrom(_, _, _)
MaxFrom(scores, i, bestIdx) ==
  IF i > Len(scores) THEN bestIdx
  ELSE IF Better(scores[i].n, scores[bestIdx].n)
       THEN MaxFrom(scores, i + 1, i)
       ELSE MaxFrom(scores, i + 1, bestIdx)

\* the return statement of predict_category
PredictResult(scores) ==
  IF scores # <<>> THEN scores[MaxFrom(scores, 2, 1)].cat ELSE "Other"


\* predict_category run without interleaving: the inner loop over one list
RECURSIVE ScoreList(_, _, _, _, _)
ScoreList(kws, k, c, t, scores) ==
  IF k > Len(kws) THEN scores
  ELSE ScoreList(kws, k + 1, c, t,
                 IF IsSubstring(Lower(kws[k]), t) THEN ScoreHit(scores, c) ELSE scores)

\* predict_category run without interleaving: the outer loop over the dict
RECURSIVE ScoreDict(_, _, _, _)
ScoreDict(d, i, t, scores) ==
  IF i > Len(d) THEN scores
  ELSE ScoreDict(d, i + 1, t, ScoreList(d[i].kws, 1, d[i].cat, t, scores))

PredictCategory(d, description, vendor) ==
  PredictResult(ScoreDict(d, 1, JoinLower(description, vendor), <<>>))

\* ------------------------------------------------------------ receipt text
Newline == <<"\n">>
IsDigit(ch) == ch \in {"0", "1", "2", "3", "4", "5", "6", "7", "8", "9"}
IsBlank(ch) == ch \in {" ", "\t", "\r", "\n"}

\* text.split('\n'): the pieces between newlines, empty pieces kept
RECURSIVE SplitLinesFrom(_, _, _)
SplitLinesFrom(s, i, cur) ==
  IF i > Len(s) THEN <<cur>>
  ELSE IF s[i] = "\n"
       THEN <<cur>> \o SplitLinesFrom(s, i + 1, <<>>)
       ELSE SplitLinesFrom(s, i + 1, Append(cur, s[i]))

SplitLines(s) == SplitLinesFrom(s, 1, <<>>)

\* str.strip()
RECURSIVE Strip(_)
Strip(s) ==
  IF s = <<>> THEN s
  ELSE IF IsBlank(s[1]) THEN Strip(Tail(s))
  ELSE IF IsBlank(s[Len(s)]) THEN Strip(SubSeq(s, 1, Len(s) - 1))
  ELSE s

\* re.search(r'\d{3,}', line)
HasDigitRun(s) ==
  \E i \in 1..(Len(s) - 2) : IsDigit(s[i]) /\ IsDigit(s[i + 1]) /\ IsDigit(s[i + 2])

\* lines[:5]
FirstLines(lines, n) == SubSeq(lines, 1, IF Len(lines) < n THEN Len(lines) ELSE n)

\* parse_receipt_text, vendor: the first of lines[:5] that, stripped, is
\* longer than 2 characters and has no run of 3 digits; Empty stands for None
RECURSIVE VendorFrom(_, _)
VendorFrom(lines, i) ==
  IF i > Len(lines) THEN Empty
  ELSE LET line == Strip(lines[i]) IN
       IF line # <<>> /\ Len(line) > 2 /\ ~HasDigitRun(line)
       THEN line
       ELSE VendorFrom(lines, i + 1)

ParseVendor(t) == VendorFrom(FirstLines(SplitLines(t), 5), 1)

\* ------------------------------------------------------------ amount patterns
\* the index after the longest run of digits that starts at i (\d* at i)
RECURSIVE RunEnd(_, _)
RunEnd(s, i) == IF i <= Len(s) /\ IsDigit(s[i]) THEN RunEnd(s, i + 1) ELSE i

\* a slip that captures the whole part only: (\d+)
NumberEndWhole(s, i) == RunEnd(s, i)

\* (\d+\.?\d*) at a digit at i: the index after the capture
NumberEnd(s, i) ==
  LET j == RunEnd(s, i)
  IN IF j <= Len(s) /\ s[j] = "." THEN RunEnd(s, j + 1) ELSE j

\* [:\s]
IsLabelSep(ch) == ch = ":" \/ IsBlank(ch)

\* the index after the longest run of [:\s] that starts at i
RECURSIVE SepEnd(_, _)
SepEnd(s, i) == IF i <= Len(s) /\ IsLabelSep(s[i]) THEN SepEnd(s, i + 1) ELSE i

StartsWith(s, i, word) ==
  /\ i + Len(word) - 1 <= Len(s)
  /\ \A k \in 1..Len(word) : s[i + k - 1] = word[k]

NoMatch == [found |-> FALSE, group |-> Empty]
Match(s, from, to) == [found |-> TRUE, group |-> SubSeq(s, from, to - 1)]

\* the leftmost of the indices at which a pattern matches (re.search tries
\* each start in turn), 0 when there is none
Leftmost(starts) ==
  IF starts = {} THEN 0 ELSE CHOOSE i \in starts : \A j \in starts : i <= j

\* where the digits of label[:\s]+\$?(\d+\.?\d*) start for a label at i,
\* 0 when the pattern does not match there
LabelDigits(s, i, label) ==
  IF ~StartsWith(s, i, label) THEN 0
  ELSE LET p == i + Len(label)
           q == SepEnd(s, p)
           d == IF q <= Len(s) /\ s[q] = "$" THEN q + 1 ELSE q
       IN IF q > p /\ d <= Len(s) /\ IsDigit(s[d]) THEN d ELSE 0

\* re.search(r'label[:\s]+\$?(\d+\.?\d*)', s)
SearchLabel(s, label) ==
  LET i == Leftmost({ k \in 1..Len(s) : LabelDigits(s, k, label) # 0 })
  IN IF i = 0 THEN NoMatch
     ELSE Match(s, LabelDigits(s, i, label), NumberEnd(s, LabelDigits(s, i, label)))

\* (\d+\.\d{2}) matches at i
TwoDecimalsAt(s, i) ==
  /\ i <= Len(s) /\ IsDigit(s[i])
  /\ LET j == RunEnd(s, i)
     IN j + 2 <= Len(s) /\ s[j] = "." /\ IsDigit(s[j + 1]) /\ IsDigit(s[j + 2])

\* re.search(r'\$(\d+\.\d{2})', s)
SearchCurrency(s) ==
  LET i == Leftmost({ k \in 1..Len(s) : s[k] = "$" /\ TwoDecimalsAt(s, k + 1) })
  IN IF i = 0 THEN NoMatch ELSE Match(s, i + 1, RunEnd(s, i + 1) + 3)

\* re.search(r'(\d+\.\d{2})', s)
SearchBare(s) ==
  LET i == Leftmost({ k \in 1..Len(s) : TwoDecimalsAt(s, k) })
  IN IF i = 0 THEN NoMatch ELSE Match(s, i, RunEnd(s, i) + 3)

totalLabel == <<"t", "o", "t", "a", "l">>
amountLabel == <<"a", "m", "o", "u", "n", "t">>

\* amount_patterns, in order
NumPatterns == 4
SearchPattern(k, s) ==
  CASE k = 1 -> SearchLabel(s, totalLabel)
    [] k = 2 -> SearchLabel(s, amountLabel)
    [] k = 3 -> SearchCurrency(s)
    [] k = 4 -> SearchBare(s)

\* ------------------------------------------------------------ numbers
\* Amounts are counted in hundredths: 12.34 is 1234.  The texts and
\* documents used carry at most two decimals.
RECURSIVE DigitsValue(_)
DigitsValue(s) ==
  IF s = <<>> THEN 0
  ELSE 10 * DigitsValue(SubSeq(s, 1, Len(s) - 1))
       + (CHOOSE d \in 0..9 : ToString(d) = s[Len(s)])

DotIndex(s) == IF \E i \in 1..Len(s) : s[i] = "."
               THEN CHOOSE i \in 1..Len(s) : s[i] = "." /\ \A j \in 1..(i - 1) : s[j] # "."
               ELSE Len(s) + 1

\* the strings float() accepts, among those made of digits, dots and letters
IsDecimal(s) ==
  /\ \E i \in 1..Len(s) : IsDigit(s[i])
  /\ \A i \in 1..Len(s) : IsDigit(s[i]) \/ s[i] = "."
  /\ Cardinality({ i \in 1..Len(s) : s[i] = "." }) <= 1

\* float(s) for such a string, in hundredths
DecimalValue(s) ==
  LET d == DotIndex(s)
      frac == SubSeq(s, d + 1, Len(s))
      two == SubSeq(frac \o <<"0", "0">>, 1, 2)
  IN 100 * DigitsValue(SubSeq(s, 1, d - 1)) + DigitsValue(two)

\* ------------------------------------------------------------ parse_receipt_text
NoAmount == 0 - 1

\* a slip that lets zero through
AmountInRangeOrZero(a) == a >= 0 /\ a < 10000 * 100

\* amount > 0 and amount < 10000
AmountInRange(a) == a > 0 /\ a < 10000 * 100

\* the loop over amount_patterns on one lower-cased line: a match counts
\* while result['amount'] is None; an amount in range is kept and ends the
\* loop (break), one out of range leaves the loop running
RECURSIVE ScanPatterns(_, _, _)
ScanPatterns(line_lower, k, amt) ==
  IF k > NumPatterns THEN amt
  ELSE LET match == SearchPattern(k, line_lower) IN
       IF match.found /\ amt = NoAmount
       THEN IF ~IsDecimal(match.group)
            THEN ScanPatterns(line_lower, k + 1, amt)
            ELSE IF AmountInRange(DecimalValue(match.group))
                 THEN DecimalValue(match.group)
                 ELSE ScanPatterns(line_lower, k + 1, amt)
       ELSE ScanPatterns(line_lower, k + 1, amt)

\* the loop over the lines
RECURSIVE ScanLines(_, _, _)
ScanLines(lines, i, amt) ==
  IF i > Len(lines) THEN amt
  ELSE ScanLines(lines, i + 1, ScanPatterns(Lower(lines[i]), 1, amt))

ParseAmount(t) == ScanLines(SplitLines(t), 1, NoAmount)

\* parse_receipt_text: amount and vendor (date, items and description are
\* not modelled); NoAmount and Empty stand for None
ParseReceiptText(t) == [amount |-> ParseAmount(t), vendor |-> ParseVendor(t)]

\* ------------------------------------------------------------ JSON values
\* what resp.json() returns: None, str, number, list, dict.  A "label" is a
\* str whose characters are not looked at (category names).
JNone == [t |-> "none"]
JStr(s) == [t |-> "str", v |-> s]
JLabel(l) == [t |-> "label", v |-> l]
JNum(n) == [t |-> "num", v |-> n]
JList(xs) == [t |-> "list", v |-> xs]
JDict(f) == [t |-> "dict", v |-> f]
EmptyDict == [t |-> "dict", v |-> <<>>]

IsDict(x) == x.t = "dict"

\* bool(x)
Truthy(x) ==
  CASE x.t = "none" -> FALSE
    [] x.t = "str" -> x.v # <<>>
    [] x.t = "label" -> x.v # ""
    [] x.t = "num" -> x.v # 0
    [] x.t = "list" -> x.v # <<>>
    [] x.t = "dict" -> DOMAIN x.v # {}

\* a or b
Or(a, b) == IF Truthy(a) THEN a ELSE b

\* 'key' in obj, on a dict
HasField(obj, key) == key \in DOMAIN obj.v

\* obj.get(key), on a dict
Get(obj, key) == IF HasField(obj, key) THEN obj.v[key] ELSE JNone

\* _get_nested_value, the lines after the loop: one 'value' level is unwrapped
UnwrapValue(obj) ==
  IF IsDict(obj) /\ HasField(obj, "value") THEN Get(obj, "value") ELSE obj

\* _get_nested_value, the loop: getattr(obj, key, None) on a str, number or
\* list is None for the keys the caller passes
RECURSIVE WalkKeys(_, _, _)
WalkKeys(obj, keys, i) ==
  IF i > Len(keys) THEN [stopped |-> FALSE, obj |-> obj]
  ELSE IF obj.t = "none" THEN [stopped |-> TRUE, obj |-> JNone]
  ELSE WalkKeys(IF IsDict(obj) THEN Get(obj, keys[i]) ELSE JNone, keys, i + 1)

GetNestedValue(obj, keys) ==
  LET r == WalkKeys(obj, keys, 1)
  IN IF r.stopped THEN JNone ELSE UnwrapValue(r.obj)

\* float(x) raises TypeError or ValueError
FloatRaises(x) ==
  CASE x.t = "num" -> FALSE
    [] x.t = "str" -> ~IsDecimal(Strip(x.v))
    [] OTHER -> TRUE

FloatValue(x) == IF x.t = "num" THEN x.v ELSE DecimalValue(Strip(x.v))

\* the exception float(x) raises, "" for none
FloatError(x) ==
  IF ~FloatRaises(x) THEN ""
  ELSE IF x.t = "str" THEN "ValueError" ELSE "TypeError"

\* try: total = float(total) except (TypeError, ValueError): total = None
TryFloat(x) ==
  IF x.t = "none" THEN JNone
  ELSE IF FloatRaises(x) THEN JNone ELSE JNum(FloatValue(x))

\* ------------------------------------------------------------ parse_receipt_veryfi
\* parse_receipt_veryfi: the veryfi_to_app_category lookup on the labels the
\* responses use (key = default_category.lower().strip()); an unknown label
\* passes through
MapCategory(label) ==
  CASE label = "Travel" -> "Travel"
    [] label = "Meals & Entertainment" -> "Food & Dining"
    [] OTHER -> label

\* a value as it is kept in a parsed receipt: its type, and its content when
\* it is a str, a number or a label
Show(x) ==
  [ t |-> x.t,
    s |-> IF x.t = "str" THEN x.v ELSE Empty,
    n |-> IF x.t = "num" THEN x.v ELSE 0,
    l |-> IF x.t = "label" THEN x.v ELSE "" ]

\* str(li): the string itself; for another value its type stands for its repr
StrOf(x) == IF x.t = "str" THEN x.v ELSE <<x.t>>

\* for li in line_items: the elements of a list, the characters of a str
Elements(x) ==
  CASE x.t = "list" -> x.v
    [] x.t = "str" -> [i \in 1..Len(x.v) |-> JStr(<<x.v[i]>>)]

\* the description of a dict line item before .strip()
ItemDescription(li) == Or(Or(Get(li, "description"), Get(li, "text")), JStr(Empty))

\* the loop over line_items: the items, the non-empty descriptions, and the
\* exception .strip() raises on a description that is no str
RECURSIVE ItemsFrom(_, _, _, _)
ItemsFrom(lis, i, items, descs) ==
  IF i > Len(lis) THEN [exc |-> "", items |-> items, descs |-> descs]
  ELSE LET li == lis[i] IN
       IF IsDict(li)
       THEN IF ItemDescription(li).t # "str"
            THEN [exc |-> "AttributeError", items |-> items, descs |-> descs]
            ELSE LET desc == Strip(ItemDescription(li).v)
                     total == TryFloat(Or(Get(li, "total"), Get(li, "price")))
                 IN ItemsFrom(lis, i + 1,
                              Append(items, [description |-> desc, total |-> total]),
                              IF desc # Empty THEN Append(descs, desc) ELSE descs)
       ELSE ItemsFrom(lis, i + 1,
                      Append(items, [description |-> StrOf(li), total |-> JNone]),
                      descs)

\* ', '.join(list)
RECURSIVE JoinComma(_)
JoinComma(list) ==
  IF list = <<>> THEN Empty
  ELSE IF Len(list) = 1 THEN list[1]
  ELSE list[1] \o <<",", " ">> \o JoinComma(Tail(list))

\* date_val.split('T')[0]
BeforeT(s) ==
  IF \E i \in 1..Len(s) : s[i] = "T"
  THEN SubSeq(s, 1, (CHOOSE i \in 1..Len(s) : s[i] = "T" /\ \A j \in 1..(i - 1) : s[j] # "T") - 1)
  ELSE s

\* a parsed receipt, or the exception that left parse_receipt_veryfi
Parsed(exc, amount, vendor, date, description, items, raw, cat) ==
  [ exc |-> exc, amount |-> amount, vendor |-> vendor, date |-> date,
    description |-> description, items |-> items, raw_text |-> raw,
    predicted_category |-> cat ]

\* the parsed receipt as it is kept in the state
ShowParsed(p) ==
  [ exc |-> p.exc, amount |-> Show(p.amount), vendor |-> Show(p.vendor), date |-> Show(p.date),
    description |-> Show(p.description),
    items |-> [i \in 1..Len(p.items) |->
                 [description |-> p.items[i].description, total |-> Show(p.items[i].total)]],
    raw_text |-> Show(p.raw_text), predicted_category |-> Show(p.predicted_category) ]

RaisedParse(e) == Parsed(e, JNone, JNone, JNone, JNone, <<>>, JNone, JNone)

\* parse_receipt_veryfi from `meta = data.get('meta') or {}` to the return.
\* The join of more than 15 item descriptions is left out: the documents
\* have fewer line items.
ParseReceiptVeryfiData(data) ==
  IF ~IsDict(data) THEN RaisedParse("AttributeError")
  ELSE
  LET meta == Or(Get(data, "meta"), EmptyDict)
      total_val == TryFloat(Or(GetNestedValue(meta, <<"total">>), GetNestedValue(data, <<"total">>)))
      date0 == Or(GetNestedValue(meta, <<"date">>), Get(data, "date"))
      date_val == IF Truthy(date0) /\ date0.t = "str" THEN JStr(BeforeT(date0.v)) ELSE date0
  IN
  IF ~IsDict(meta) THEN RaisedParse("AttributeError")
  ELSE
  LET vendor_obj == Or(Get(meta, "vendor"), Get(data, "vendor"))
      vendor_val == IF IsDict(vendor_obj)
                    THEN Or(Get(vendor_obj, "name"), Get(vendor_obj, "raw_name"))
                    ELSE vendor_obj
      category0 == Or(Or(GetNestedValue(meta, <<"default_category">>),
                         Get(meta, "default_category")),
                      Get(data, "category"))
      default_category == IF Truthy(category0) /\ category0.t = "label"
                          THEN JLabel(MapCategory(category0.v)) ELSE category0
      line_items == Or(Get(data, "line_items"), JList(<<>>))
  IN
  IF line_items.t \in {"num"} THEN RaisedParse("TypeError")
  ELSE
  LET loop == ItemsFrom(Elements(line_items), 1, <<>>, <<>>)
      description_val == IF loop.descs # <<>> THEN JStr(JoinComma(loop.descs)) ELSE JNone
  IN
  IF loop.exc # "" THEN RaisedParse(loop.exc)
  ELSE Parsed("", total_val, Or(vendor_val, JNone), date_val, description_val,
              loop.items, Or(Get(data, "ocr_text"), JStr(Empty)), default_category)

\* ------------------------------------------------------------ documents
\* The JSON documents of the remote backend are drawn by shape: what each
\* field holds.
n1999 == <<"1", "9", ".", "9", "9">>
abc == <<"a", "b", "c">>
isoDate == <<"2", "0", "2", "4", "T", "0", "9">>

TotalOf(kind) ==
  CASE kind = "absent" -> JNone
    [] kind = "str" -> JStr(n1999)
    [] kind = "num" -> JNum(1999)
    [] kind = "wrapped" -> JDict([value |-> JStr(n1999)])
    [] kind = "wrapped2" -> JDict([value |-> JDict([value |-> JStr(n1999)])])
    [] kind = "wrapped_none" -> JDict([value |-> JNone])
    [] kind = "wrapped2_none" -> JDict([value |-> JDict([value |-> JNone])])
    [] kind = "text" -> JStr(abc)

VendorOf(kind) ==
  CASE kind = "absent" -> JNone
    [] kind = "str" -> JStr(Taxi)
    [] kind = "name" -> JDict([name |-> JStr(cafe), raw_name |-> JStr(Taxi)])
    [] kind = "raw_name" -> JDict([raw_name |-> JStr(Taxi)])
    [] kind = "list" -> JList(<<JStr(Taxi)>>)

ItemsOf(kind) ==
  CASE kind = "absent" -> JNone
    [] kind = "list" -> JList(<< JDict([description |-> JStr(latte), total |-> JStr(n1999)]),
                                 JDict([text |-> JStr(Space \o mocha), price |-> JStr(abc)]) >>)
    [] kind = "strings" -> JList(<<JStr(latte)>>)
    [] kind = "str" -> JStr(bus)
    [] kind = "num" -> JNum(500)
    [] kind = "desc_num" -> JList(<<JDict([description |-> JNum(500)])>>)
    [] kind = "desc_list" -> JList(<<JDict([description |-> JList(<<JStr(latte)>>)])>>)

MetaOf(kind, total, date) ==
  CASE kind = "absent" -> JNone
    [] kind = "dict" -> JDict([total |-> total, date |-> date])
    [] kind = "str" -> JStr(abc)
    [] kind = "list" -> JList(<<JStr(abc)>>)

CategoryOf(label) == IF label = "" THEN JNone ELSE JLabel(label)

DateOf(kind) == IF kind = "iso" THEN JStr(isoDate) ELSE JNone

\* the document of a shape: total and date come inside meta when meta is a
\* dict, and at the top level otherwise
Doc(shape) ==
  IF shape.top = "list" THEN JList(<<JStr(abc)>>)
  ELSE JDict([ meta |-> MetaOf(shape.meta, TotalOf(shape.total), DateOf(shape.date)),
               total |-> IF shape.meta = "dict" THEN JNone ELSE TotalOf(shape.total),
               date |-> IF shape.meta = "dict" THEN JNone ELSE DateOf(shape.date),
               vendor |-> VendorOf(shape.vendor),
               category |-> CategoryOf(shape.category),
               line_items |-> ItemsOf(shape.items) ])

Shape(top, meta, total, vendor, category, items, date) ==
  [ top |-> top, meta |-> meta, total |-> total, vendor |-> vendor,
    category |-> category, items |-> items, date |-> date ]

\* parse_receipt_veryfi raises after resp.json()
NormalizeRaises(data) == ParseReceiptVeryfiData(Doc(data)).exc # ""

\* ------------------------------------------------------------ uploads
NoBytes == 0

\* the exception inside extract_text_from_image's try block, "" for none:
\* Image.open on a path that is gone raises FileNotFoundError
OcrError(readable, out) == IF readable THEN out.error ELSE "FileNotFoundError"

\* extract_text_from_image: the text, or "" after any exception
ExtractTextFromImage(readable, out) ==
  IF OcrError(readable, out) = "" THEN out.text ELSE Empty

\* werkzeug's secure_filename on the upload names the requests use: path
\* separators and leading dots are dropped, a name of dots alone gives ''
SecureFilename(raw) ==
  CASE raw = "receipt.jpg" -> "receipt.jpg"
    [] raw = "../receipt.jpg" -> "receipt.jpg"
    [] raw = ".." -> ""
    [] OTHER -> raw

\* a slip that drops the second `not`
NoProviderLostNot(va, oa) == ~va /\ oa

\* if not VERYFI_AVAILABLE and not OCR_AVAILABLE
NoProvider(va, oa) == ~va /\ ~oa

\* a slip that leaves the file in place
RemoveFileSkipped(f, name) == f

\* os.remove(filepath) on an existing file
RemoveFile(f, name) == [f EXCEPT ![name] = NoBytes]

\* os.path.exists(filepath)
PathExists(f, name) == f[name] # NoBytes

\* requests.Response.__bool__ is Response.ok: false for every 4xx and 5xx
ResponseTruthy(resp) == resp.status < 400

\* err = e.response.text if getattr(e, 'response', None) else str(e)
ErrorText(e) ==
  IF e.hasResponse /\ ResponseTruthy(e)
  THEN [from |-> "response.text", val |-> e.body]
  ELSE [from |-> "str(e)", val |-> e.kind]

\* ------------------------------------------------------------ inputs
\* train(description, vendor, category) calls
TrainInputs ==
  { [description |-> latte \o Space \o mocha, vendor |-> Empty, category |-> "Food & Dining"],
    [description |-> Taxi \o Space \o cafe, vendor |-> bus, category |-> "Transportation"],
    [description |-> latte \o Space \o mocha, vendor |-> Empty, category |-> "Other"] }
\* predict_category(description, vendor) calls
PredictInputs ==
  { [description |-> Taxi \o Space \o cafe, vendor |-> Empty],
    [description |-> Taxi \o Space \o cafe, vendor |-> bus],
    [description |-> latte \o Space \o mocha, vendor |-> Empty] }
Categories == { "Food & Dining", "Transportation", "Other" }

\* parse_receipt_text inputs: the lines a receipt text is made of
totalLine == <<"T", "o", "t", "a", "l", ":", " ", "$", "1", "2", ".", "3", "4">>
currencyLine == <<"$", "5", ".", "0", "0">>
zeroLine == <<"0", ".", "0", "0">>
bigLine == <<"1", "0", "0", "0", "0", ".", "0", "0">>
amountLine == <<"a", "m", "o", "u", "n", "t", ":", " ", "7">>
mixedLine == <<"5", ".", "0", "0", " ", "T", "o", "t", "a", "l", ":", " ", "7", ".", "0", "0">>
skipLine == <<"t", "o", "t", "a", "l", ":", " ", "0", " ", "$", "3", ".", "0", "0">>
paddedLine == <<" ", "b", "u", "s", " ">>
shortLine == <<"a", "b">>
twoLine == <<"0", ".", "0", "0", " ", "5", ".", "0", "0">>
TextLines ==
  { Empty, Space, Taxi, totalLine, currencyLine, zeroLine, bigLine, amountLine,
    mixedLine, skipLine, paddedLine, shortLine, twoLine }

\* '\n'.join(lines)
RECURSIVE JoinLines(_)
JoinLines(lines) ==
  IF lines = <<>> THEN Empty
  ELSE IF Len(lines) = 1 THEN lines[1]
  ELSE lines[1] \o Newline \o JoinLines(Tail(lines))

BlankLines(n) == [i \in 1..n |-> Empty]

\* the line sequences of the receipt texts
TextBodies == UNION { [1..n -> TextLines] : n \in 0..MaxLines }
ParseLineSeqs == { BlankLines(n) \o body : n \in 0..MaxBlank, body \in TextBodies }
ParseTexts == { JoinLines(ls) : ls \in ParseLineSeqs }

\* parse_receipt_veryfi inputs: the shapes of the documents
DocShapes ==
  { Shape("list", "absent", "absent", "absent", "", "absent", "absent") }
  \cup { Shape("dict", m, t, v, c, i, d) :
           m \in {"absent", "dict", "str", "list"},
           t \in {"absent", "str", "num", "wrapped", "wrapped2", "wrapped_none",
                  "wrapped2_none", "text"},
           v \in {"absent", "str", "name", "raw_name", "list"},
           c \in {"", "Travel", "Misc"},
           i \in {"absent", "list", "strings", "str", "num", "desc_num", "desc_list"},
           d \in {"absent", "iso"} }
NoShape == Shape("none", "absent", "absent", "absent", "", "absent", "absent")

\* one call of a parser: of parse_receipt_text on a text, or of the
\* normalising part of parse_receipt_veryfi on a document
NoJob == [kind |-> "none", text |-> Empty, doc |-> NoShape]
TextJob(t) == [kind |-> "text", text |-> t, doc |-> NoShape]
DocJob(d) == [kind |-> "doc", text |-> Empty, doc |-> d]

\* add_expense inputs: the JSON body of POST /api/expenses
ExpenseAmountOf(kind) ==
  CASE kind = "num" -> JNum(1250)
    [] kind = "str" -> JStr(n1999)
    [] kind = "text" -> JStr(abc)
    [] kind = "zero" -> JNum(0)
    [] kind = "negative" -> JNum(0 - 500)
    [] kind = "absent" -> JNone
    [] kind = "list" -> JList(<<JNum(1250)>>)

ExpenseInputs ==
  { [amount |-> a, date |-> d, description |-> t.description, vendor |-> t.vendor,
     category |-> c] :
      a \in {"num", "str", "text", "zero", "negative", "absent", "list"},
      d \in {"", "2024-03-14"},
      t \in TrainInputs,
      c \in Categories \cup {""} }

\* /api/ocr inputs
UploadNames == { "", "receipt.jpg", "../receipt.jpg", ".." }
StoredNames == { "receipt.jpg" }
\* what tesseract reads off the image
OcrTexts == { Empty, Taxi \o Newline \o <<"1", "2", "3">>, <<"1", "2", "3", "4">> \o Newline \o latte }
\* what Image.open and pytesseract.image_to_string end in: the text, or the
\* exception of a missing tesseract binary or of bytes that are no image
OcrOutcomes ==
  { [error |-> "", text |-> t] : t \in OcrTexts }
  \cup { [error |-> "TesseractNotFoundError", text |-> Empty],
         [error |-> "UnidentifiedImageError", text |-> Empty] }
\* the JSON documents the remote backend answers with
VeryfiData ==
  { Shape("dict", "dict", "wrapped", "absent", "", "absent", "absent"),
    Shape("dict", "dict", "wrapped", "str", "", "absent", "absent"),
    Shape("dict", "dict", "wrapped", "name", "Travel", "absent", "absent"),
    Shape("dict", "str", "wrapped", "absent", "", "absent", "absent") }
\* what requests.post, raise_for_status and resp.json() end in
PostOutcomes ==
  { [kind |-> "ok", hasResponse |-> TRUE, status |-> 200, body |-> "json"],
    [kind |-> "HTTPError", hasResponse |-> TRUE, status |-> 401, body |-> "not authorized"],
    [kind |-> "TooManyRedirects", hasResponse |-> TRUE, status |-> 302, body |-> "moved"],
    [kind |-> "Timeout", hasResponse |-> FALSE, status |-> 0, body |-> ""] }
NoException == [kind |-> "none", hasResponse |-> FALSE, status |-> 0, body |-> ""]
OtherException(k) == [kind |-> k, hasResponse |-> FALSE, status |-> 0, body |-> ""]
IsRequestException(e) == e.kind \in {"HTTPError", "TooManyRedirects", "Timeout"}

VARIABLES
  keywords,    \* classifier.keywords, in memory
  file,        \* models/expense_classifier.pkl
  pc,          \* per worker: where its classifier call is
  op,          \* per worker: the classifier call it runs or last ran
  words,       \* train: the split words
  wi,          \* train: index of the word being handled
  category,    \* train: the category argument
  pre,         \* train: the category's list when the call started (history)
  buf,         \* save_model: the pickled bytes not yet flushed to the file
  text,        \* predict: the lower-cased text
  ci,          \* predict: index of the dict entry being scored
  ki,          \* predict: index of the keyword to test next
  observed,    \* predict: the keywords read from the entry being scored (history)
  scores,      \* predict: the scores dict
  seen,        \* predict: the entries scored, with the keywords read (history)
  result,      \* per worker: outcome of the last call
  completed,   \* (category, word) pairs of the train calls that returned (history)
  calls,       \* classifier calls started so far
  crashes,     \* process crashes so far
  veryfiAvailable,  \* VERYFI_AVAILABLE
  ocrAvailable,     \* OCR_AVAILABLE
  uploads,     \* UPLOAD_FOLDER: file name -> the worker whose upload it holds
  req,         \* per worker: its /api/ocr request
  nreq,        \* /api/ocr requests started so far
  job,         \* the parser call under study
  parsedText,  \* what parse_receipt_text returned
  parsedDoc,   \* what parse_receipt_veryfi's normalisation returned or raised
  expense,     \* per worker: its POST /api/expenses request
  rows         \* rows committed to the expenses table

clsVars == << keywords, file, pc, op, words, wi, category, pre, buf, text, ci, ki,
              observed, scores, seen, result, completed, calls, crashes >>

ocrVars == << veryfiAvailable, ocrAvailable, uploads, req, nreq >>

parseVars == << job, parsedText, parsedDoc >>

expVars == << expense, rows >>

vars == << clsVars, ocrVars, parseVars, expVars >>

IdleWorker(f) == [w \in Workers |-> f]

ClassifierInit ==
  /\ keywords = LoadedKeywords(NoFile)
  /\ file = LoadedFile(NoFile)
  /\ pc = IdleWorker("idle")
  /\ op = IdleWorker("none")
  /\ words = IdleWorker(<<>>)
  /\ wi = IdleWorker(1)
  /\ category = IdleWorker("none")
  /\ pre = IdleWorker(<<>>)
  /\ buf = IdleWorker(<<>>)
  /\ text = IdleWorker(<<>>)
  /\ ci = IdleWorker(1)
  /\ ki = IdleWorker(1)
  /\ observed = IdleWorker(<<>>)
  /\ scores = IdleWorker(<<>>)
  /\ seen = IdleWorker(<<>>)
  /\ result = IdleWorker("none")
  /\ completed = {}
  /\ calls = 0
  /\ crashes = 0

\* a request slot before any request
NoRequest ==
  [ pc |-> "idle", entered |-> FALSE, fname |-> "", stored |-> FALSE,
    bodyRead |-> FALSE, tmpWritten |-> FALSE, providerCalled |-> FALSE,
    classifierCalled |-> FALSE, got |-> NoBytes, exc |-> NoException,
    ocrError |-> "", vendor |-> Empty, predicted |-> "", status |-> 0,
    detail |-> [from |-> "", val |-> ""] ]

OcrInit(va, oa) ==
  /\ veryfiAvailable = va
  /\ ocrAvailable = oa
  /\ uploads = [n \in StoredNames |-> NoBytes]
  /\ req = IdleWorker(NoRequest)
  /\ nreq = 0

NotParsedText == [done |-> FALSE, amount |-> NoAmount, vendor |-> Empty]
NotParsedDoc == [done |-> FALSE, parsed |-> ShowParsed(RaisedParse(""))]

NoExpense == [pc |-> "idle", committed |-> FALSE, status |-> 0, error |-> ""]

ParseInit(j) ==
  /\ job = j
  /\ parsedText = NotParsedText
  /\ parsedDoc = NotParsedDoc
  /\ expense = IdleWorker(NoExpense)
  /\ rows = 0

\* the deployment without VERYFI_* credentials and with tesseract installed
Init == ClassifierInit /\ OcrInit(FALSE, TRUE) /\ ParseInit(NoJob)

\* every deployment
InitOcr == ClassifierInit /\ (\E va, oa \in BOOLEAN : OcrInit(va, oa)) /\ ParseInit(NoJob)

\* every parser call
InitParse ==
  /\ ClassifierInit
  /\ OcrInit(FALSE, TRUE)
  /\ \E j \in { TextJob(t) : t \in ParseTexts } \cup { DocJob(d) : d \in DocShapes } :
       ParseInit(j)

\* The server runs each request on a thread of its own.  Threads are
\* interchangeable, so a new request takes the first free worker.  A step of
\* a call that touches nothing but the call's own variables is taken
\* together with the step before it.

\* the first worker with no classifier call in progress
FirstIdle(w) == pc[w] = "idle" /\ \A u \in Workers : u < w => pc[u] # "idle"

\* ------------------------------------------------------------ train
\* where train goes on once the word at index i is the next long word
TrainAt(ws, i) == IF i > Len(ws) THEN "save_open" ELSE "train_check"

\* train is entered: words = (description + ' ' + vendor).lower().split()
TrainEnter(w, in) ==
  /\ FirstIdle(w)
  /\ calls < MaxCalls
  /\ calls' = calls + 1
  /\ LET ws == Split(JoinLower(in.description, in.vendor)) IN
     /\ words' = [words EXCEPT ![w] = ws]
     /\ wi' = [wi EXCEPT ![w] = NextLong(ws, 1)]
     /\ pc' = [pc EXCEPT ![w] = TrainAt(ws, NextLong(ws, 1))]
  /\ op' = [op EXCEPT ![w] = "train"]
  /\ category' = [category EXCEPT ![w] = in.category]
  /\ pre' = [pre EXCEPT ![w] = IF HasKey(keywords, in.category)
                                THEN Lookup(keywords, in.category) ELSE <<>>]
  /\ result' = [result EXCEPT ![w] = "none"]
  /\ UNCHANGED << keywords, file, buf, text, ci, ki, observed, scores, seen, completed, crashes >>

\* a train call from outside add_expense
TrainCall(w, in) ==
  /\ TrainEnter(w, in)
  /\ UNCHANGED << ocrVars, parseVars, expVars >>

\* for a word with len(word) > 3: word not in self.keywords[category],
\* which raises KeyError when the plain dict has no such key
TrainCheck(w) ==
  /\ pc[w] = "train_check"
  /\ UNCHANGED << ocrVars, parseVars, expVars >>
  /\ IF ~HasKey(keywords, category[w])
     THEN \* KeyError leaves train; save_model is not reached
          /\ pc' = [pc EXCEPT ![w] = "idle"]
          /\ result' = [result EXCEPT ![w] = "KeyError"]
          /\ UNCHANGED wi
     ELSE IF ~InList(words[w][wi[w]], Lookup(keywords, category[w]))
          THEN /\ pc' = [pc EXCEPT ![w] = "train_append"]
               /\ UNCHANGED << wi, result >>
          ELSE /\ wi' = [wi EXCEPT ![w] = NextLong(words[w], @ + 1)]
               /\ pc' = [pc EXCEPT ![w] = TrainAt(words[w], NextLong(words[w], wi[w] + 1))]
               /\ UNCHANGED result
  /\ UNCHANGED << keywords, file, op, words, category, pre, buf, text, ci, ki, observed,
                  scores, seen, completed, calls, crashes >>

\* self.keywords[category].append(word)
TrainAppend(w) ==
  /\ pc[w] = "train_append"
  /\ UNCHANGED << ocrVars, parseVars, expVars >>
  /\ keywords' = DictAppend(keywords, category[w], words[w][wi[w]])
  /\ wi' = [wi EXCEPT ![w] = NextLong(words[w], @ + 1)]
  /\ pc' = [pc EXCEPT ![w] = TrainAt(words[w], NextLong(words[w], wi[w] + 1))]
  /\ UNCHANGED << file, op, words, category, pre, buf, text, ci, ki, observed, scores,
                  seen, result, completed, calls, crashes >>

\* ------------------------------------------------------------ save_model
\* open(model_path, 'wb') truncates the file
SaveOpen(w) ==
  /\ pc[w] = "save_open"
  /\ UNCHANGED << ocrVars, parseVars, expVars >>
  /\ file' = TruncatedFile
  /\ pc' = [pc EXCEPT ![w] = "save_dump"]
  /\ UNCHANGED << keywords, op, words, wi, category, pre, buf, text, ci, ki, observed,
                  scores, seen, result, completed, calls, crashes >>

\* pickle.dump({'keywords': dict(self.keywords), ...}, f): the pickler runs
\* without yielding to another thread and leaves the bytes in f's buffer
SaveDump(w) ==
  /\ pc[w] = "save_dump"
  /\ UNCHANGED << ocrVars, parseVars, expVars >>
  /\ buf' = [buf EXCEPT ![w] = keywords]
  /\ pc' = [pc EXCEPT ![w] = "save_close"]
  /\ UNCHANGED << keywords, file, op, words, wi, category, pre, text, ci, ki, observed,
                  scores, seen, result, completed, calls, crashes >>

TrainedPairs(c, ws) == { <<c, ws[i]>> : i \in { j \in 1..Len(ws) : Len(ws[j]) > 3 } }

\* leaving the with block flushes the buffer at offset 0 of the file, whose
\* first pickle is from now on this one; save_model and train return
SaveClose(w) ==
  /\ pc[w] = "save_close"
  /\ UNCHANGED << ocrVars, parseVars, expVars >>
  /\ file' = PickleFile(buf[w])
  /\ buf' = [buf EXCEPT ![w] = <<>>]
  /\ completed' = completed \cup TrainedPairs(category[w], words[w])
  /\ result' = [result EXCEPT ![w] = "ok"]
  /\ pc' = [pc EXCEPT ![w] = "idle"]
  /\ words' = [words EXCEPT ![w] = <<>>]
  /\ wi' = [wi EXCEPT ![w] = 1]
  /\ pre' = [pre EXCEPT ![w] = <<>>]
  /\ UNCHANGED << keywords, op, category, text, ci, ki, observed, scores, seen, calls, crashes >>

\* ------------------------------------------------------------ predict_category
\* predict_category is entered: text = (description + ' ' + vendor).lower()
PredictCall(w, in) ==
  /\ FirstIdle(w)
  /\ UNCHANGED << ocrVars, parseVars, expVars >>
  /\ calls < MaxCalls
  /\ calls' = calls + 1
  /\ op' = [op EXCEPT ![w] = "predict"]
  /\ text' = [text EXCEPT ![w] = JoinLower(in.description, in.vendor)]
  /\ ci' = [ci EXCEPT ![w] = 1]
  /\ ki' = [ki EXCEPT ![w] = 1]
  /\ observed' = [observed EXCEPT ![w] = <<>>]
  /\ scores' = [scores EXCEPT ![w] = <<>>]
  /\ seen' = [seen EXCEPT ![w] = <<>>]
  /\ IF Len(keywords) = 0
     THEN /\ result' = [result EXCEPT ![w] = PredictResult(<<>>)]
          /\ UNCHANGED pc
     ELSE /\ result' = [result EXCEPT ![w] = "none"]
          /\ pc' = [pc EXCEPT ![w] = "predict_scan"]
  /\ UNCHANGED << keywords, file, words, wi, category, pre, buf, completed, crashes >>

\* one step of `for keyword in keywords` on the live list of the entry: the
\* list iterator yields the next element, or it stops, and then the outer
\* loop goes to the next entry or, after the last one, predict_category
\* returns
PredictKeyword(w) ==
  /\ pc[w] = "predict_scan"
  /\ UNCHANGED << ocrVars, parseVars, expVars >>
  /\ LET e == keywords[ci[w]] IN
     IF ki[w] <= Len(e.kws)
     THEN /\ observed' = [observed EXCEPT ![w] = Append(@, e.kws[ki[w]])]
          /\ scores' = [scores EXCEPT ![w] =
                          IF IsSubstring(Lower(e.kws[ki[w]]), text[w])
                          THEN ScoreHit(@, e.cat) ELSE @]
          /\ ki' = [ki EXCEPT ![w] = @ + 1]
          /\ UNCHANGED << pc, ci, seen, result >>
     ELSE /\ seen' = [seen EXCEPT ![w] = Append(@, [cat |-> e.cat, kws |-> observed[w]])]
          /\ observed' = [observed EXCEPT ![w] = <<>>]
          /\ ki' = [ki EXCEPT ![w] = 1]
          /\ UNCHANGED scores
          /\ IF ci[w] < Len(keywords)
             THEN /\ ci' = [ci EXCEPT ![w] = @ + 1]
                  /\ UNCHANGED << pc, result >>
             ELSE /\ result' = [result EXCEPT ![w] = PredictResult(scores[w])]
                  /\ pc' = [pc EXCEPT ![w] = "idle"]
                  /\ ci' = [ci EXCEPT ![w] = 1]
  /\ UNCHANGED << keywords, file, op, words, wi, category, pre, buf, text,
                  completed, calls, crashes >>

\* ------------------------------------------------------------ process
\* the process dies at any point and is started again: every request is
\* gone and `classifier = SimpleExpenseClassifier()` runs load_model
CrashRestart ==
  /\ crashes < MaxCrashes
  /\ UNCHANGED << ocrVars, parseVars, expVars >>
  /\ crashes' = crashes + 1
  /\ keywords' = LoadedKeywords(file)
  /\ file' = LoadedFile(file)
  /\ pc' = IdleWorker("idle")
  /\ op' = IdleWorker("none")
  /\ words' = IdleWorker(<<>>)
  /\ wi' = IdleWorker(1)
  /\ category' = IdleWorker("none")
  /\ pre' = IdleWorker(<<>>)
  /\ buf' = IdleWorker(<<>>)
  /\ text' = IdleWorker(<<>>)
  /\ ci' = IdleWorker(1)
  /\ ki' = IdleWorker(1)
  /\ observed' = IdleWorker(<<>>)
  /\ scores' = IdleWorker(<<>>)
  /\ seen' = IdleWorker(<<>>)
  /\ result' = IdleWorker("none")
  /\ UNCHANGED << completed, calls >>

Next ==
  \/ \E w \in Workers, in \in TrainInputs : TrainCall(w, in)
  \/ \E w \in Workers : TrainCheck(w)
  \/ \E w \in Workers : TrainAppend(w)
  \/ \E w \in Workers : SaveOpen(w)
  \/ \E w \in Workers : SaveDump(w)
  \/ \E w \in Workers : SaveClose(w)
  \/ \E w \in Workers, in \in PredictInputs : PredictCall(w, in)
  \/ \E w \in Workers : PredictKeyword(w)
  \/ CrashRestart

Spec == Init /\ [][Next]_vars

\* ------------------------------------------------------------ /api/ocr
Finish(r, st, d) == [r EXCEPT !.pc = "done", !.status = st, !.detail = d]

Detail(f, v) == [from |-> f, val |-> v]

\* an exception raised inside the try block is caught by one of the handlers
Raise(r, e) == [r EXCEPT !.pc = "handler_exists", !.exc = e]

Free(r) == r.pc \in {"idle", "done"}

\* the first worker with no /api/ocr request in progress
FirstFree(w) == Free(req[w]) /\ \A u \in Workers : u < w => ~Free(req[u])

\* login_required answers 401 without calling ocr_receipt
LoginRejected(w) ==
  /\ FirstFree(w)
  /\ nreq < MaxRequests
  /\ nreq' = nreq + 1
  /\ req' = [req EXCEPT ![w] = Finish(NoRequest, 401, Detail("error", "Authentication required"))]
  /\ UNCHANGED << clsVars, parseVars, expVars, veryfiAvailable, ocrAvailable, uploads >>

\* ocr_receipt from its entry to file.save(filepath): the availability test,
\* request.files (which parses the uploaded body), the filename tests and
\* the save, which is outside the try block: a filepath that is the upload
\* directory itself raises and the request ends as an unhandled 500
OcrEnter(w, hasFile, raw) ==
  /\ FirstFree(w)
  /\ nreq < MaxRequests
  /\ nreq' = nreq + 1
  /\ LET r == [NoRequest EXCEPT !.entered = TRUE]
         rb == [r EXCEPT !.bodyRead = TRUE, !.fname = SecureFilename(raw)]
     IN IF NoProvider(veryfiAvailable, ocrAvailable)
        THEN /\ req' = [req EXCEPT ![w] =
                          Finish(r, 503, Detail("error", "Receipt scanning is not available"))]
             /\ UNCHANGED uploads
        ELSE IF ~hasFile
        THEN /\ req' = [req EXCEPT ![w] =
                          Finish([r EXCEPT !.bodyRead = TRUE], 400, Detail("error", "No file uploaded"))]
             /\ UNCHANGED uploads
        ELSE IF raw = ""
        THEN /\ req' = [req EXCEPT ![w] =
                          Finish([r EXCEPT !.bodyRead = TRUE], 400, Detail("error", "No file selected"))]
             /\ UNCHANGED uploads
        ELSE IF rb.fname = ""
        THEN /\ req' = [req EXCEPT ![w] = Finish(rb, 500, Detail("unhandled", "IsADirectoryError"))]
             /\ UNCHANGED uploads
        ELSE /\ uploads' = [uploads EXCEPT ![rb.fname] = w]
             /\ req' = [req EXCEPT ![w] =
                          [rb EXCEPT !.stored = TRUE, !.tmpWritten = TRUE,
                                     !.pc = IF veryfiAvailable THEN "veryfi" ELSE "local_ocr"]]
  /\ UNCHANGED << clsVars, parseVars, expVars, veryfiAvailable, ocrAvailable >>

\* parse_receipt_veryfi (open and read the file, requests.post,
\* raise_for_status, the normalisation), then the lines of ocr_receipt that
\* fill predicted_category
Veryfi(w, out, data) ==
  /\ req[w].pc = "veryfi"
  /\ req' = [req EXCEPT ![w] =
       LET r == [@ EXCEPT !.providerCalled = TRUE] IN
       IF ~PathExists(uploads, r.fname) THEN Raise(r, OtherException("FileNotFoundError"))
       ELSE LET rr == [r EXCEPT !.got = uploads[r.fname]] IN
       IF out.kind # "ok" THEN Raise(rr, out)
       ELSE LET parsed == ParseReceiptVeryfiData(Doc(data))
                predicted == parsed.predicted_category
                ask == ~Truthy(predicted) /\ Truthy(parsed.vendor)
            IN
       IF NormalizeRaises(data) THEN Raise(rr, OtherException(parsed.exc))
       ELSE IF ask /\ parsed.vendor.t # "str"
       THEN \* description + ' ' + vendor on a vendor that is no str
            Raise([rr EXCEPT !.classifierCalled = TRUE], OtherException("TypeError"))
       ELSE [rr EXCEPT !.vendor = IF parsed.vendor.t = "str" THEN parsed.vendor.v ELSE Empty,
                       !.predicted = IF ask
                                     THEN PredictCategory(keywords, parsed.vendor.v, parsed.vendor.v)
                                     ELSE IF predicted.t = "label" THEN predicted.v ELSE "",
                       !.classifierCalled = ask,
                       !.pc = "removing"]]
  /\ UNCHANGED << clsVars, parseVars, expVars, veryfiAvailable, ocrAvailable, uploads, nreq >>

\* extract_text_from_image (any failure gives ""), parse_receipt_text and
\* the prediction from the vendor
LocalOcr(w, out) ==
  /\ req[w].pc = "local_ocr"
  /\ LET readable == PathExists(uploads, req[w].fname)
         txt == ExtractTextFromImage(readable, out)
         vendor == ParseVendor(txt)
     IN req' = [req EXCEPT ![w] =
          [@ EXCEPT !.providerCalled = TRUE,
                    !.got = uploads[req[w].fname],
                    !.ocrError = OcrError(readable, out),
                    !.vendor = vendor,
                    !.predicted = IF vendor # Empty
                                  THEN PredictCategory(keywords, vendor, vendor) ELSE "",
                    !.classifierCalled = vendor # Empty,
                    !.pc = "removing"]]
  /\ UNCHANGED << clsVars, parseVars, expVars, veryfiAvailable, ocrAvailable, uploads, nreq >>

\* os.remove(filepath) at the end of the try block, then the 200 answer
OcrRemove(w) ==
  /\ req[w].pc = "removing"
  /\ IF PathExists(uploads, req[w].fname)
     THEN /\ uploads' = RemoveFile(uploads, req[w].fname)
          /\ req' = [req EXCEPT ![w] = Finish(@, 200, Detail("success", ""))]
     ELSE /\ req' = [req EXCEPT ![w] = Raise(@, OtherException("FileNotFoundError"))]
          /\ UNCHANGED uploads
  /\ UNCHANGED << clsVars, parseVars, expVars, veryfiAvailable, ocrAvailable, nreq >>

\* the answer of the two except blocks
HandlerAnswer(r) ==
  IF IsRequestException(r.exc)
  THEN Finish(r, 502, ErrorText(r.exc))
  ELSE Finish(r, 500, Detail("str(e)", r.exc.kind))

\* except ...: if os.path.exists(filepath)
HandlerExists(w) ==
  /\ req[w].pc = "handler_exists"
  /\ req' = [req EXCEPT ![w] =
       IF PathExists(uploads, req[w].fname)
       THEN [@ EXCEPT !.pc = "handler_remove"]
       ELSE HandlerAnswer(@)]
  /\ UNCHANGED << clsVars, parseVars, expVars, veryfiAvailable, ocrAvailable, uploads, nreq >>

\* except ...: os.remove(filepath), which raises out of the handler when
\* the file has gone since the test
HandlerRemove(w) ==
  /\ req[w].pc = "handler_remove"
  /\ IF PathExists(uploads, req[w].fname)
     THEN /\ uploads' = RemoveFile(uploads, req[w].fname)
          /\ req' = [req EXCEPT ![w] = HandlerAnswer(@)]
     ELSE /\ req' = [req EXCEPT ![w] = Finish(@, 500, Detail("unhandled", "FileNotFoundError"))]
          /\ UNCHANGED uploads
  /\ UNCHANGED << clsVars, parseVars, expVars, veryfiAvailable, ocrAvailable, nreq >>

NextOcr ==
  \/ \E w \in Workers : LoginRejected(w)
  \/ \E w \in Workers, hasFile \in BOOLEAN, raw \in UploadNames : OcrEnter(w, hasFile, raw)
  \/ \E w \in Workers, out \in PostOutcomes, data \in VeryfiData : Veryfi(w, out, data)
  \/ \E w \in Workers, out \in OcrOutcomes : LocalOcr(w, out)
  \/ \E w \in Workers : OcrRemove(w)
  \/ \E w \in Workers : HandlerExists(w)
  \/ \E w \in Workers : HandlerRemove(w)

SpecOcr == InitOcr /\ [][NextOcr]_vars

\* ------------------------------------------------------------ add_expense
\* add_expense up to the insert: the answer of a rejected body, status 0
\* for a body that goes on to the insert.  float() on a list raises a
\* TypeError no except clause catches: handle_500 answers 500
ValidateExpense(in) ==
  LET amt == ExpenseAmountOf(in.amount) IN
  IF ~Truthy(amt) \/ in.category = "" \/ in.date = ""
  THEN [status |-> 400, error |-> "Amount, category, and date are required"]
  ELSE IF FloatError(amt) = "ValueError"
  THEN [status |-> 400, error |-> "Invalid amount"]
  ELSE IF FloatError(amt) = "TypeError"
  THEN [status |-> 500, error |-> "Server error"]
  ELSE IF FloatValue(amt) <= 0
  THEN [status |-> 400, error |-> "Amount must be positive"]
  ELSE [status |-> 0, error |-> ""]

ExpenseFree(w) == expense[w].pc \in {"idle", "done"}

\* login_required answers 401 without calling add_expense
ExpenseLoginRejected(w) ==
  /\ FirstIdle(w) /\ ExpenseFree(w)
  /\ calls < MaxCalls
  /\ calls' = calls + 1
  /\ expense' = [expense EXCEPT ![w] =
                   [pc |-> "done", committed |-> FALSE, status |-> 401,
                    error |-> "Authentication required"]]
  /\ UNCHANGED << keywords, file, pc, op, words, wi, category, pre, buf, text, ci, ki,
                  observed, scores, seen, result, completed, crashes >>
  /\ UNCHANGED << ocrVars, parseVars, rows >>

\* add_expense on a body that is rejected before the insert
AddExpenseRejected(w, in) ==
  /\ FirstIdle(w) /\ ExpenseFree(w)
  /\ calls < MaxCalls
  /\ ValidateExpense(in).status # 0
  /\ calls' = calls + 1
  /\ expense' = [expense EXCEPT ![w] =
                   [pc |-> "done", committed |-> FALSE,
                    status |-> ValidateExpense(in).status, error |-> ValidateExpense(in).error]]
  /\ UNCHANGED << keywords, file, pc, op, words, wi, category, pre, buf, text, ci, ki,
                  observed, scores, seen, result, completed, crashes >>
  /\ UNCHANGED << ocrVars, parseVars, rows >>

\* add_expense on an accepted body: the INSERT, db.commit(), db.close(), and
\* classifier.train(description, vendor, category) is entered
AddExpenseCommit(w, in) ==
  /\ ExpenseFree(w)
  /\ ValidateExpense(in).status = 0
  /\ rows' = rows + 1
  /\ expense' = [expense EXCEPT ![w] =
                   [pc |-> "training", committed |-> TRUE, status |-> 0, error |-> ""]]
  /\ TrainEnter(w, [description |-> in.description, vendor |-> in.vendor,
                    category |-> in.category])
  /\ UNCHANGED << ocrVars, parseVars >>

\* classifier.train has returned or raised: `return jsonify({'success': True,
\* ...})`, or the exception leaves add_expense and handle_500 answers 500
ExpenseReturn(w) ==
  /\ expense[w].pc = "training"
  /\ pc[w] = "idle"
  /\ expense' = [expense EXCEPT ![w] =
                   IF result[w] = "ok"
                   THEN [@ EXCEPT !.pc = "done", !.status = 200]
                   ELSE [@ EXCEPT !.pc = "done", !.status = 500, !.error = "Server error"]]
  /\ UNCHANGED << clsVars, ocrVars, parseVars, rows >>

NextExpense ==
  \/ \E w \in Workers : ExpenseLoginRejected(w)
  \/ \E w \in Workers, in \in ExpenseInputs : AddExpenseRejected(w, in)
  \/ \E w \in Workers, in \in ExpenseInputs : AddExpenseCommit(w, in)
  \/ \E w \in Workers : TrainCheck(w)
  \/ \E w \in Workers : TrainAppend(w)
  \/ \E w \in Workers : SaveOpen(w)
  \/ \E w \in Workers : SaveDump(w)
  \/ \E w \in Workers : SaveClose(w)
  \/ \E w \in Workers : ExpenseReturn(w)

SpecExpense == Init /\ [][NextExpense]_vars

\* ------------------------------------------------------------ parsers
\* parse_receipt_text(text)
ParseText ==
  /\ job.kind = "text"
  /\ ~parsedText.done
  /\ parsedText' = [done |-> TRUE, amount |-> ParseReceiptText(job.text).amount,
                                   vendor |-> ParseReceiptText(job.text).vendor]
  /\ UNCHANGED << clsVars, ocrVars, expVars, job, parsedDoc >>

\* parse_receipt_veryfi on the document resp.json() returned
NormalizeDoc ==
  /\ job.kind = "doc"
  /\ ~parsedDoc.done
  /\ parsedDoc' = [done |-> TRUE, parsed |-> ShowParsed(ParseReceiptVeryfiData(Doc(job.doc)))]
  /\ UNCHANGED << clsVars, ocrVars, expVars, job, parsedText >>

NextParse == ParseText \/ NormalizeDoc

SpecParse == InitParse /\ [][NextParse]_vars

\* ================================================================ claims
AllIdle == \A w \in Workers : pc[w] = "idle"

Learned(d) == \A p \in completed : p[2] \in KwSet(d, p[1])

\* C1: once two train calls for different categories, run by different
\* workers, have both returned, the in-memory model and the model file both
\* hold every keyword each call added.
C1_NoLostUpdate ==
  ( /\ AllIdle
    /\ crashes = 0
    /\ \A w \in Workers : op[w] = "train" /\ result[w] = "ok"
    /\ \A w1, w2 \in Workers : w1 # w2 => category[w1] # category[w2] )
  => /\ Learned(keywords)
     /\ file.state = "pickle"
     /\ Learned(file.data)

\* C2: after a crash at any point, the model loaded at the next start holds
\* every keyword of every train call that had returned before the crash.
C2_CrashKeepsLearning == crashes > 0 => Learned(keywords)

\* the list train(words) leaves when it runs alone on the list `list`
RECURSIVE TrainedList(_, _, _)
TrainedList(ws, i, list) ==
  IF i > Len(ws) THEN list
  ELSE IF Len(ws[i]) > 3 /\ ~InList(ws[i], list)
       THEN TrainedList(ws, i + 1, Append(list, ws[i]))
       ELSE TrainedList(ws, i + 1, list)

\* C3: the keyword list predict_category has scored for a category, once a
\* train call on that category (the only one on it) has started and while it
\* runs, is the list from before the call or the list with all of the call's
\* words, never one in between.
C3_NoTornRead ==
  \A p, t \in Workers :
    \A k \in 1..Len(seen[p]) :
      ( /\ op[p] = "predict"
        /\ pc[t] \in {"train_check", "train_append"}
        /\ category[t] = seen[p][k].cat
        /\ Len(seen[p][k].kws) >= Len(pre[t])
        /\ \A u \in Workers \ {p, t} : ~(op[u] = "train" /\ category[u] = category[t]) )
      => seen[p][k].kws \in { pre[t], TrainedList(words[t], 1, pre[t]) }

\* C4: a train call that has returned, for any category, returned normally
\* and left that category with a non-empty keyword set.
C4_TrainLeavesNonEmpty ==
  \A w \in Workers :
    (pc[w] = "idle" /\ op[w] = "train")
    => result[w] = "ok" /\ KwSet(keywords, category[w]) # {}

\* C5: no step of a train or predict call removes a keyword from any
\* category: each category's keyword set only grows.
C5_TrainMonotonic ==
  [][ crashes' = crashes =>
        \A c \in Categories : KwSet(keywords, c) \subseteq KwSet(keywords', c) ]_vars

\* C5 witness: a train call has returned after adding a keyword to its category
C5_Witness ==
  \E w \in Workers :
    /\ pc[w] = "idle" /\ op[w] = "train" /\ result[w] = "ok"
    /\ HasKey(keywords, category[w])
    /\ Len(Lookup(keywords, category[w])) > Len(Lookup(DefaultKeywords, category[w]))

\* C6: no category's keyword list holds the same keyword twice.
C6_NoDuplicates ==
  \A i \in 1..Len(keywords) :
    \A a, b \in 1..Len(keywords[i].kws) :
      a # b => keywords[i].kws[a] # keywords[i].kws[b]

\* the number of keywords of a dict entry that occur in the text
Hits(e, t) == Cardinality({ k \in 1..Len(e.kws) : IsSubstring(e.kws[k], t) })

ExpectedCategory(d, t) ==
  IF \A i \in 1..Len(d) : Hits(d[i], t) = 0
  THEN "Other"
  ELSE d[CHOOSE i \in 1..Len(d) :
           /\ \A j \in 1..Len(d) : Hits(d[j], t) <= Hits(d[i], t)
           /\ \A j \in 1..(i - 1) : Hits(d[j], t) < Hits(d[i], t)].cat

\* C7: predict_category returns the category with the most keywords occurring
\* in the lower-cased text, the first such category in the dict's order on a
\* tie, and 'Other' when no keyword occurs.
C7_PredictResult ==
  \A w \in Workers :
    (pc[w] = "idle" /\ op[w] = "predict")
    => result[w] = ExpectedCategory(seen[w], text[w])

\* C7 witness: a predict call has returned on a tie between two categories
C7_Witness ==
  \E w \in Workers :
    /\ pc[w] = "idle" /\ op[w] = "predict"
    /\ Len(scores[w]) = 2
    /\ scores[w][1].n = scores[w][2].n
    /\ result[w] = scores[w][1].cat

\* C8: with neither backend available, a request that reaches ocr_receipt
\* is answered 503 and has read no uploaded bytes, written no temporary
\* file and invoked no provider and no classifier.
C8_FailFastWithoutProvider ==
  \A w \in Workers :
    (~veryfiAvailable /\ ~ocrAvailable /\ req[w].entered)
    => /\ req[w].pc = "done"
       /\ req[w].status = 503
       /\ ~req[w].bodyRead
       /\ ~req[w].tmpWritten
       /\ ~req[w].providerCalled
       /\ ~req[w].classifierCalled
       /\ \A n \in StoredNames : uploads[n] # w

\* C8 witness: a request was answered 503 in a deployment without backends
C8_Witness ==
  /\ ~veryfiAvailable /\ ~ocrAvailable
  /\ \E w \in Workers : req[w].entered /\ req[w].pc = "done" /\ req[w].status = 503

\* C9: when a request that stored its upload as a temporary file has
\* returned, the upload folder no longer holds that file, whichever way the
\* request ended.
C9_TempFileRemoved ==
  \A w \in Workers :
    (req[w].pc = "done" /\ req[w].stored)
    => uploads[req[w].fname] # w

\* C9 witness: one request that stored its file ended in the remote-failure
\* answer and another in success
C9_Witness ==
  \E w1, w2 \in Workers :
    /\ req[w1].pc = "done" /\ req[w1].stored /\ req[w1].status = 502
    /\ req[w2].pc = "done" /\ req[w2].stored /\ req[w2].status = 200

\* C10: a request whose remote call failed with a transport error is
\* answered 502 and, when the failure carries a response with a body, the
\* error detail is that body.  (Requests whose handler was itself broken by
\* a concurrent removal of the file are left aside.)
C10_UpstreamBodySurfaced ==
  \A w \in Workers :
    ( /\ req[w].pc = "done"
      /\ IsRequestException(req[w].exc)
      /\ req[w].detail.from # "unhandled" )
    => /\ req[w].status = 502
       /\ (req[w].exc.hasResponse /\ req[w].exc.body # "")
            => req[w].detail = Detail("response.text", req[w].exc.body)

\* C11: a request on the local OCR backend whose engine could not be run on
\* the image (tesseract missing, or the image not openable) is answered with
\* a failure, never with success.
C11_LocalOcrFailureReported ==
  \A w \in Workers :
    ( /\ req[w].pc = "done"
      /\ req[w].ocrError \in {"TesseractNotFoundError", "UnidentifiedImageError"} )
    => req[w].status >= 400

\* C12: normalising the remote backend's document never raises, whatever
\* the types of meta, vendor, line_items or a line item's description: the
\* caller always gets a parsed receipt.
C12_NormalizerNeverRaises ==
  parsedDoc.done => parsedDoc.parsed.exc = ""

HasLine(t, line) == InList(line, SplitLines(t))

\* the line holds an amount candidate (the match of one of the four patterns)
\* whose value is greater than 0 and less than 10000
HasCandidateInRange(line) ==
  \E k \in 1..NumPatterns :
    LET m == SearchPattern(k, Lower(line))
    IN m.found /\ DecimalValue(m.group) > 0 /\ DecimalValue(m.group) < 1000000

\* C13, as stated: a text with a line "Total: $12.34" gives the amount 12.34,
\* whatever lines precede or follow it.
C13_TotalLineAlwaysWins ==
  (parsedText.done /\ HasLine(job.text, totalLine)) => parsedText.amount = 1234

\* C13, amended: a text with a line "Total: $12.34" that no line holding an
\* amount candidate in range precedes gives the amount 12.34, whatever lines
\* follow it.
C13_TotalLineFirstCandidate ==
  LET lines == SplitLines(job.text) IN
  ( /\ parsedText.done
    /\ \E i \in 1..Len(lines) :
         /\ lines[i] = totalLine
         /\ \A j \in 1..(i - 1) : ~HasCandidateInRange(lines[j]) )
  => parsedText.amount = 1234

\* C13 witness: the total line came after a line whose only candidate is out
\* of range, and 12.34 was returned
C13_Witness ==
  LET lines == SplitLines(job.text) IN
  /\ parsedText.done
  /\ parsedText.amount = 1234
  /\ \E i \in 2..Len(lines) :
       /\ lines[i] = totalLine
       /\ lines[i - 1] = zeroLine

\* the candidates of a text: (line, pattern) pairs whose pattern matches the
\* lower-cased line
Candidates(lines) ==
  { c \in (1..Len(lines)) \X (1..NumPatterns) : SearchPattern(c[2], Lower(lines[c[1]])).found }

CandidateValue(lines, c) == DecimalValue(SearchPattern(c[2], Lower(lines[c[1]])).group)

Before(c, d) == c[1] < d[1] \/ (c[1] = d[1] /\ c[2] < d[2])

ExpectedAmount(lines) ==
  LET good == { c \in Candidates(lines) :
                  CandidateValue(lines, c) > 0 /\ CandidateValue(lines, c) < 1000000 }
  IN IF good = {} THEN NoAmount
     ELSE CandidateValue(lines, CHOOSE c \in good : \A d \in good \ {c} : Before(c, d))

\* C14: the amount is the value of the first candidate, lines taken top to
\* bottom and within a line the four patterns in their order, that is
\* greater than 0 and less than 10000; candidates out of that range are
\* passed over; the amount is absent when no candidate is in range.
C14_FirstCandidateInRange ==
  parsedText.done => parsedText.amount = ExpectedAmount(SplitLines(job.text))

\* C14 witness: an amount was returned although an earlier candidate was out
\* of range
C14_Witness ==
  LET lines == SplitLines(job.text) IN
  /\ parsedText.done
  /\ parsedText.amount # NoAmount
  /\ \E c, d \in Candidates(lines) :
       /\ Before(c, d)
       /\ CandidateValue(lines, c) >= 1000000
       /\ CandidateValue(lines, d) = parsedText.amount

NonBlank(line) == Strip(line) # Empty

Qualifies(line) == Len(Strip(line)) > 2 /\ ~HasDigitRun(Strip(line))

ExpectedVendor(lines) ==
  LET first == FirstLines(SelectSeq(lines, NonBlank), 5)
  IN IF \E i \in 1..Len(first) : Qualifies(first[i])
     THEN Strip(first[CHOOSE i \in 1..Len(first) :
                        Qualifies(first[i]) /\ \A j \in 1..(i - 1) : ~Qualifies(first[j])])
     ELSE Empty

\* C15: the vendor is the first of the first 5 non-blank lines that, trimmed,
\* is longer than 2 characters and has no run of 3 digits; it is absent only
\* when none of those lines qualifies.
C15_VendorFromNonEmptyLines ==
  parsedText.done => parsedText.vendor = ExpectedVendor(SplitLines(job.text))

\* C16: a total wrapped in 'value' objects to any depth is normalised to the
\* amount of the bare scalar, and to absent when a None is met on the way.
C16_UnwrapAnyDepth ==
  ( /\ parsedDoc.done
    /\ parsedDoc.parsed.exc = ""
    /\ job.doc.meta \in {"absent", "dict"} )
  => /\ job.doc.total \in {"str", "wrapped", "wrapped2"}
          => (parsedDoc.parsed.amount.t = "num" /\ parsedDoc.parsed.amount.n = 1999)
     /\ job.doc.total \in {"wrapped_none", "wrapped2_none"}
          => parsedDoc.parsed.amount.t = "none"

\* C17: a request that stored its upload had its provider read the bytes it
\* uploaded itself, and did not fail because the temporary file was gone,
\* whatever other requests with the same file name did meanwhile.
C17_NoTempFileInterference ==
  \A w \in Workers :
    (req[w].pc = "done" /\ req[w].stored)
    => /\ req[w].got = w
       /\ req[w].exc.kind # "FileNotFoundError"
       /\ req[w].ocrError # "FileNotFoundError"
       /\ req[w].detail.val # "FileNotFoundError"

\* C18: add_expense is all-or-nothing: a request answered with an error has
\* committed no row, and a request that committed a row is answered with
\* success, whatever its category and whatever the train call did.
C18_AddExpenseAllOrNothing ==
  \A w \in Workers :
    expense[w].pc = "done"
    => /\ expense[w].status >= 400 => ~expense[w].committed
       /\ expense[w].committed => expense[w].status = 200

====
